---- MODULE Spec2Model ----
(***************************************************************************)
(* A model of the ivoox-scraping repository: the podcast fetcher           *)
(* (rss-download.py: extract_id, build_feed_url, get_first_mp3_enclosure,  *)
(* download_mp3, ConfigLoader and the entry point) and the browser session *)
(* wrapper (src/web_scraper.py: WebScraper).                               *)
(*                                                                         *)
(* A Python str is a sequence of characters; a character is a one-letter   *)
(* string, or the name of its code point ("U+0130") when it is not ASCII.  *)
(* Python's None is the one-element sequence NoneVal, which no str equals. *)
(***************************************************************************)
EXTENDS Integers, Sequences, FiniteSets, TLC

VARIABLES
  fn,          \* unit specifications: the function that was called ("none" before)
  args,        \* unit specifications: its arguments
  result,      \* unit specifications: [kind |-> "return" | "raise", value |-> ...]
  dirs,        \* file system: the directories that exist (paths)
  files,       \* file system: path -> content, for the files that exist
  log,         \* history: the GET requests issued and the files opened for writing
  feed,        \* network: the children of the root of the document the feed server holds
  pc,          \* entry point: where the script is
  data,        \* entry point: what yaml.safe_load gives for config.yaml
  config,      \* entry point: the loaded PodcastConfig
  idx,         \* entry point: position of the for loop in config.podcast_url
  ivoox_id,    \* entry point: local variable
  feed_url,    \* entry point: local variable (Unbound before its first assignment)
  mp3_url,     \* entry point: local variable
  saved_file,  \* entry point: local variable
  exc,         \* entry point: the exception that ended the run (NoException if none)
  scraper,     \* browser wrapper: the WebScraper object and its browser session
  lastOp       \* browser wrapper: the last operation and how it ended

vars == <<fn, args, result, dirs, files, log, feed, pc, data, config, idx, ivoox_id,
          feed_url, mp3_url, saved_file, exc, scraper, lastOp>>

callVars == <<fn, args, result>>
fsVars == <<dirs, files, log, feed>>
mainVars == <<pc, data, config, idx, ivoox_id, feed_url, mp3_url, saved_file, exc>>
scraperVars == <<scraper, lastOp>>

----------------------------------------------------------------------------
(* Bounds of the model. *)

\* Inputs of the string functions are concatenations of at most this many pieces.
MaxPieces == 4
\* Identifiers given to build_feed_url have at most this many characters.
MaxIdLen == 3
\* A feed document has at most this many elements below its root.
MaxNodes == 4
\* A media response body arrives in at most this many chunks.
MaxChunks == 2
\* The podcast_url list of a configuration has at most this many entries.
MaxUrls == 2
\* The browser model counts at most this many clicks that went through.
MaxClicks == 2

----------------------------------------------------------------------------
(* Python values and str operations. *)

NoneVal == <<"None">>
Unbound == <<"Unbound">>

\* str(None), as an f-string formats it.
NoneText == <<"N","o","n","e">>

RECURSIVE Flatten(_)
\* The concatenation of a sequence of strings.
Flatten(ss) ==
  IF ss = <<>> THEN <<>> ELSE Head(ss) \o Flatten(Tail(ss))

\* Every concatenation of at most n pieces of P.
Inputs(P, n) ==
  { Flatten(t) : t \in UNION { [1..k -> P] : k \in 0..n } }

\* str.lower() of one character. U+0130 (capital I with dot above) lowers to
\* two characters, "i" and U+0307 (combining dot above).
LowerChar(c) ==
  CASE c = "M" -> <<"m">>
    [] c = "P" -> <<"p">>
    [] c = "E" -> <<"e">>
    [] c = "U+0130" -> <<"i", "U+0307">>
    [] OTHER -> <<c>>

\* str.lower()
Lower(s) ==
  Flatten([i \in 1..Len(s) |-> LowerChar(s[i])])

\* str.endswith(suffix)
EndsWith(s, suffix) ==
  /\ Len(s) >= Len(suffix)
  /\ SubSeq(s, Len(s) - Len(suffix) + 1, Len(s)) = suffix

\* sub occurs in s at the 0-based index i
OccursAt(s, sub, i) ==
  /\ i >= 0
  /\ i + Len(sub) <= Len(s)
  /\ SubSeq(s, i + 1, i + Len(sub)) = sub

\* str.find(sub): the lowest 0-based index where sub occurs, or -1
Find(s, sub) ==
  LET hits == { i \in 0..Len(s) : OccursAt(s, sub, i) }
  IN  IF hits = {} THEN -1
      ELSE CHOOSE i \in hits : \A j \in hits : i <= j

\* s[:n] for n >= 0
Slice(s, n) ==
  SubSeq(s, 1, IF n < Len(s) THEN n ELSE Len(s))

\* s.split(sep)[-1] for a one-character sep: what follows the last sep
LastSegment(s, sep) ==
  LET seps == { i \in 1..Len(s) : s[i] = sep }
  IN  IF seps = {} THEN s
      ELSE LET last == CHOOSE i \in seps : \A j \in seps : j <= i
           IN  SubSeq(s, last + 1, Len(s))

\* \d of the re module on a str pattern: any Unicode decimal digit
\* (U+0663 is ARABIC-INDIC DIGIT THREE).
IsDigit(c) ==
  c \in {"0", "1", "2", "3", "4", "5", "6", "7", "8", "9", "U+0663"}

----------------------------------------------------------------------------
(* extract_id *)

\* The pattern's literal prefix, "sq_", and the letter that opens the group.
IdMarker == <<"s","q","_">>
IdLetter == "f"

\* The number of consecutive digits of s from the 1-based position p on.
DigitRun(s, p) ==
  LET stops == { q \in p..(Len(s) + 1) : q > Len(s) \/ ~IsDigit(s[q]) }
  IN  (CHOOSE q \in stops : \A r \in stops : q <= r) - p

\* The match of sq_(f\d+)_ that starts at the 1-based position i: the number
\* of digits \d+ ends up holding (greedy, giving back one digit at a time
\* until "_" follows), or 0 when there is no match at i.
MatchAt(s, i) ==
  IF ~( /\ i + 3 <= Len(s)
        /\ SubSeq(s, i, i + 2) = IdMarker
        /\ s[i + 3] = IdLetter )
  THEN 0
  ELSE LET run == DigitRun(s, i + 4)
           fits == { n \in 1..run : i + 4 + n <= Len(s) /\ s[i + 4 + n] = "_" }
       IN  IF fits = {} THEN 0
           ELSE CHOOSE n \in fits : \A m \in fits : m <= n

\* A plausible slip: the scan returns the last match instead of the first.
extract_id_last(url) ==
  LET starts == { i \in 1..Len(url) : MatchAt(url, i) > 0 }
  IN  IF starts = {} THEN NoneVal
      ELSE LET i == CHOOSE i \in starts : \A j \in starts : j <= i
           IN  SubSeq(url, i + 3, i + 3 + MatchAt(url, i))

\* re.search scans the start positions from the left; group(1) of the first
\* match, or None.
extract_id(url) ==
  LET starts == { i \in 1..Len(url) : MatchAt(url, i) > 0 }
  IN  IF starts = {} THEN NoneVal
      ELSE LET i == CHOOSE i \in starts : \A j \in starts : i <= j
           IN  SubSeq(url, i + 3, i + 3 + MatchAt(url, i))

----------------------------------------------------------------------------
(* build_feed_url *)

FeedPrefix == <<"h","t","t","p","s",":","/","/","f","e","e","d","s",".","i","v","o","o","x",".","c","o","m","/","f","e","e","d","_","f","g","_">>
FeedSuffix == <<"_","f","i","l","t","r","o","_","1",".","x","m","l">>

\* What an f-string puts for {v}: the str itself, "None" for None.
Format(v) ==
  IF v = NoneVal THEN NoneText ELSE v

\* A plausible slip: the template is returned without the identifier.
build_feed_url_noid(ivoox_id_) ==
  FeedPrefix \o FeedSuffix

build_feed_url(ivoox_id_) ==
  FeedPrefix \o Format(ivoox_id_) \o FeedSuffix

----------------------------------------------------------------------------
(* download_mp3: the file name *)

Mp3Marker == <<".","m","p","3">>
\* len(".mp3"), the 4 of filename[: idx + 4]
MarkerLen == 4

\* Lines 63-68: the name of the file a media URL is saved under.
DeriveFilename(url) ==
  LET filename == LastSegment(url, "/")
  IN  IF ~EndsWith(Lower(filename), Mp3Marker)
      THEN LET i == Find(Lower(filename), Mp3Marker)
           IN  IF i # -1 THEN Slice(filename, i + MarkerLen) ELSE filename
      ELSE filename

----------------------------------------------------------------------------
(* The network: what a GET answers. A response is                          *)
(*   [kind |-> "conn_error"]            requests.get raises, or            *)
(*   [kind |-> "http", status, body]    a status line and a body.          *)
(* A feed body is [wellformed, kids]: whether it parses as XML, and the    *)
(* root's children, each an element [tag, url, kids] (url: its url         *)
(* attribute, NoneVal if it has none). A media body is [chunks, clean]:    *)
(* the chunks iter_content yields and whether the stream then ends cleanly *)
(* or breaks.                                                              *)

\* What Element.find gives when no child has the tag (None).
NoElement == [tag |-> "None", url |-> NoneVal, kids |-> <<>>]

\* Response.raise_for_status(): an error status raises HTTPError.
RaisesForStatus(resp) ==
  resp.status >= 400

\* A plausible slip: only the first child is looked at.
FindChildHeadOnly(kids, tag) ==
  IF kids # <<>> /\ kids[1].tag = tag THEN kids[1] ELSE NoElement

\* Element.find(tag): the first direct child with that tag, or None.
FindChild(kids, tag) ==
  LET hits == { i \in 1..Len(kids) : kids[i].tag = tag }
  IN  IF hits = {} THEN NoElement
      ELSE kids[CHOOSE i \in hits : \A j \in hits : i <= j]

\* Lines 29-52.
get_first_mp3_enclosure(resp) ==
  IF resp.kind = "conn_error"
  THEN [kind |-> "raise", value |-> "ConnectionError"]
  ELSE IF RaisesForStatus(resp)
  THEN [kind |-> "raise", value |-> "HTTPError"]
  ELSE IF ~resp.body.wellformed
  THEN [kind |-> "raise", value |-> "ParseError"]
  ELSE LET channel == FindChild(resp.body.kids, "channel")
       IN  IF channel = NoElement
           THEN [kind |-> "return", value |-> NoneVal]
           ELSE LET item == FindChild(channel.kids, "item")
                IN  IF item = NoElement
                    THEN [kind |-> "return", value |-> NoneVal]
                    ELSE LET enclosure == FindChild(item.kids, "enclosure")
                         IN  IF enclosure = NoElement
                             THEN [kind |-> "return", value |-> NoneVal]
                             ELSE LET url == enclosure.url
                                  IN  IF /\ url # NoneVal
                                         /\ url # <<>>
                                         /\ EndsWith(Lower(url), Mp3Marker)
                                      THEN [kind |-> "return", value |-> url]
                                      ELSE [kind |-> "return", value |-> url]

----------------------------------------------------------------------------
(* The file system and download_mp3. *)

\* os.makedirs(path, exist_ok=True): path and its missing ancestors.
MakeDirs(d, path) ==
  d \cup {path} \cup { SubSeq(path, 1, i - 1) : i \in { j \in 2..Len(path) : path[j] = "/" } }

\* os.path.join(a, b)
Join(a, b) ==
  IF b # <<>> /\ b[1] = "/" THEN b
  ELSE IF a = <<>> \/ a[Len(a)] = "/" THEN a \o b
  ELSE a \o <<"/">> \o b

\* open(path, "wb") fails on a directory.
IsDirectory(d, path) ==
  \/ path \in d
  \/ path # <<>> /\ path[Len(path)] = "/"

\* The file system f with path holding content.
WithFile(f, path, content) ==
  [p \in DOMAIN f \cup {path} |-> IF p = path THEN content ELSE f[p]]

\* Lines 75-77: what the loop writes, the chunks that are not empty, in order.
Written(chunks) ==
  Flatten(SelectSeq(chunks, LAMBDA c : c # <<>>))

\* How a call of download_mp3 ends: the exception or the value returned, the
\* file system it leaves, whether the GET was sent, and the path it opened
\* for writing (NoneVal if none).
Outcome(k, v, d, f, g, o) ==
  [kind |-> k, value |-> v, dirs |-> d, files |-> f, get |-> g, opened |-> o]

\* A plausible slip: the file is opened before the status is checked.
download_mp3_open_first(url, dest_folder, resp, d, f) ==
  LET d1 == MakeDirs(d, dest_folder)
      dest_path == Join(dest_folder, DeriveFilename(url))
  IN  IF dest_folder = <<>>
      THEN Outcome("raise", "FileNotFoundError", d, f, FALSE, NoneVal)
      ELSE IF dest_folder \in DOMAIN f
      THEN Outcome("raise", "FileExistsError", d, f, FALSE, NoneVal)
      ELSE IF url = NoneVal
      THEN Outcome("raise", "AttributeError", d1, f, FALSE, NoneVal)
      ELSE IF resp.kind = "conn_error"
      THEN Outcome("raise", "ConnectionError", d1, f, TRUE, NoneVal)
      ELSE IF IsDirectory(d1, dest_path)
      THEN Outcome("raise", "IsADirectoryError", d1, f, TRUE, NoneVal)
      ELSE IF RaisesForStatus(resp)
      THEN Outcome("raise", "HTTPError", d1, WithFile(f, dest_path, <<>>), TRUE, dest_path)
      ELSE IF ~resp.body.clean
      THEN Outcome("raise", "ChunkedEncodingError", d1,
                   WithFile(f, dest_path, Written(resp.body.chunks)), TRUE, dest_path)
      ELSE Outcome("return", dest_path, d1,
                   WithFile(f, dest_path, Written(resp.body.chunks)), TRUE, dest_path)

\* Lines 54-79, on the file system (d, f) and with resp the answer to the GET.
\* Line 60 makes the folder (it fails on an empty path and on a path that is
\* a file); line 63 fails on None; line 72 sends the GET; line 73 checks the
\* status; line 74 opens the file, emptying it; lines 75-77 write the chunks
\* until the stream ends or breaks; line 79 returns the path.
download_mp3(url, dest_folder, resp, d, f) ==
  LET d1 == MakeDirs(d, dest_folder)
      dest_path == Join(dest_folder, DeriveFilename(url))
  IN  IF dest_folder = <<>>
      THEN Outcome("raise", "FileNotFoundError", d, f, FALSE, NoneVal)
      ELSE IF dest_folder \in DOMAIN f
      THEN Outcome("raise", "FileExistsError", d, f, FALSE, NoneVal)
      ELSE IF url = NoneVal
      THEN Outcome("raise", "AttributeError", d1, f, FALSE, NoneVal)
      ELSE IF resp.kind = "conn_error"
      THEN Outcome("raise", "ConnectionError", d1, f, TRUE, NoneVal)
      ELSE IF RaisesForStatus(resp)
      THEN Outcome("raise", "HTTPError", d1, f, TRUE, NoneVal)
      ELSE IF IsDirectory(d1, dest_path)
      THEN Outcome("raise", "IsADirectoryError", d1, f, TRUE, NoneVal)
      ELSE IF ~resp.body.clean
      THEN Outcome("raise", "ChunkedEncodingError", d1,
                   WithFile(f, dest_path, Written(resp.body.chunks)), TRUE, dest_path)
      ELSE Outcome("return", dest_path, d1,
                   WithFile(f, dest_path, Written(resp.body.chunks)), TRUE, dest_path)

\* The requests and the files opened that a call of download_mp3 adds to the
\* history, made in iteration i of the entry point's loop (0: no loop).
DownloadEvents(r, i, url, resp) ==
  (IF r.get
   THEN << [op |-> "GET_MEDIA", idx |-> i, url |-> url, path |-> <<>>, resp |-> resp] >>
   ELSE <<>>)
  \o (IF r.opened # NoneVal
      THEN << [op |-> "WRITE", idx |-> i, url |-> url, path |-> r.opened, resp |-> resp] >>
      ELSE <<>>)

----------------------------------------------------------------------------
(* ConfigLoader. What yaml.safe_load gives for the file is                 *)
(*   [kind |-> "absent"]       there is no file (load raises before it),   *)
(*   [kind |-> "malformed"]    it raises a YAML error,                     *)
(*   [kind |-> "null"]         None, for an empty document,                *)
(*   [kind |-> "int"]          a number,                                   *)
(*   [kind |-> "str", has]     a str; has: the key names it contains,      *)
(*   [kind |-> "list", has]    a list; has: the key names among its items, *)
(*   [kind |-> "map", map]     a dict from keys to values.                 *)
(* A value is [type |-> "null" | "str" | "list", v |-> ...].               *)

KeyAudio == "downloaded_podcast_audio"
KeyUrls == "podcast_url"

YNull == [type |-> "null", v |-> <<>>]
YStr(str) == [type |-> "str", v |-> str]
YList(items) == [type |-> "list", v |-> items]

RECURSIVE Split(_, _)
\* str.split(sep) for a one-character sep
Split(str, sep) ==
  LET seps == { i \in 1..Len(str) : str[i] = sep }
  IN  IF seps = {} THEN << str >>
      ELSE LET first == CHOOSE i \in seps : \A j \in seps : i <= j
           IN  << SubSeq(str, 1, first - 1) >> \o Split(SubSeq(str, first + 1, Len(str)), sep)

RECURSIVE JoinWith(_, _)
\* sep.join(parts)
JoinWith(parts, sep) ==
  IF parts = <<>> THEN <<>>
  ELSE IF Len(parts) = 1 THEN parts[1]
  ELSE parts[1] \o <<sep>> \o JoinWith(Tail(parts), sep)

\* str(Path(str)): empty and "." components and trailing slashes are dropped.
PathOf(str) ==
  LET parts == SelectSeq(Split(str, "/"), LAMBDA c : c # <<>> /\ c # <<".">>)
      root == IF str # <<>> /\ str[1] = "/" THEN <<"/">> ELSE <<>>
      path == root \o JoinWith(parts, "/")
  IN  IF path = <<>> THEN <<".">> ELSE path

Raise(type, msg) ==
  [kind |-> "raise", value |-> [type |-> type, msg |-> msg]]

NoException == [type |-> "None", msg |-> ""]

\* key in data (lines 118 and 120): None and numbers are not iterable.
ContainsKey(d, key) ==
  CASE d.kind = "map" -> key \in DOMAIN d.map
    [] d.kind \in {"str", "list"} -> key \in d.has
    [] OTHER -> FALSE

\* ConfigLoader._validate, lines 117-123.
Validate(d) ==
  IF d.kind \in {"null", "int"}
  THEN Raise("TypeError", "argument is not iterable")
  ELSE IF ~ContainsKey(d, KeyAudio)
  THEN Raise("ValueError", "Missing required field: downloaded_podcast_audio")
  ELSE IF ~ContainsKey(d, KeyUrls)
  THEN Raise("ValueError", "Missing required field: podcast_url")
  ELSE IF d.kind # "map"
  THEN Raise("TypeError", "indices must be integers")
  ELSE IF d.map[KeyUrls].type # "list"
  THEN Raise("ValueError", "podcast_url must be an array of strings")
  ELSE [kind |-> "return", value |-> NoException]

\* ConfigLoader.load, lines 99-110.
Load(d) ==
  IF d.kind = "absent" THEN Raise("FileNotFoundError", "Config file not found: config.yaml")
  ELSE IF d.kind = "malformed" THEN Raise("YAMLError", "")
  ELSE IF Validate(d).kind = "raise" THEN Validate(d)
  ELSE IF d.map[KeyAudio].type # "str"
  THEN Raise("TypeError", "expected str, bytes or os.PathLike object")
  ELSE [kind |-> "return",
        value |-> [downloaded_podcast_audio |-> PathOf(d.map[KeyAudio].v),
                   podcast_url |-> d.map[KeyUrls].v]]

----------------------------------------------------------------------------
(* Idle values of the state a specification does not use. *)

IdleCall ==
  /\ fn = "none"
  /\ args = <<>>
  /\ result = [kind |-> "pending", value |-> <<>>]

IdleFs ==
  /\ dirs = {}
  /\ files = <<>>
  /\ log = <<>>
  /\ feed = <<>>

IdleMain ==
  /\ pc = "idle"
  /\ data = [kind |-> "none"]
  /\ config = [downloaded_podcast_audio |-> NoneVal, podcast_url |-> <<>>]
  /\ idx = 0
  /\ ivoox_id = Unbound
  /\ feed_url = Unbound
  /\ mp3_url = Unbound
  /\ saved_file = Unbound
  /\ exc = NoException

IdleScraper ==
  /\ scraper = [driver |-> "none"]
  /\ lastOp = [op |-> "none"]

----------------------------------------------------------------------------
(* Unit specification of extract_id. *)

IdPieces ==
  { IdMarker, <<"f">>, <<"1">>, <<"2">>, <<"_">>, <<"x">>, <<"U+0663">>,
    <<"s","q","_","f","1","_">>, <<"s","q","_","f","2","2","_">> }

InitExtractId ==
  /\ fn = "none"
  /\ args \in { <<u>> : u \in Inputs(IdPieces, MaxPieces) }
  /\ result = [kind |-> "pending", value |-> <<>>]
  /\ IdleFs /\ IdleMain /\ IdleScraper

CallExtractId ==
  /\ fn = "none"
  /\ fn' = "extract_id"
  /\ result' = [kind |-> "return", value |-> extract_id(args[1])]
  /\ UNCHANGED <<args, fsVars, mainVars, scraperVars>>

SpecExtractId == InitExtractId /\ [][CallExtractId]_vars

----------------------------------------------------------------------------
(* Unit specification of build_feed_url: it is applied to two identifiers. *)

IdChars == {"f", "1", "2", "_"}

Identifiers ==
  UNION { [1..k -> IdChars] : k \in 0..MaxIdLen }

InitBuildFeedUrl ==
  /\ fn = "none"
  /\ args \in Identifiers \X Identifiers
  /\ result = [kind |-> "pending", value |-> <<>>]
  /\ IdleFs /\ IdleMain /\ IdleScraper

CallBuildFeedUrl ==
  /\ fn = "none"
  /\ fn' = "build_feed_url"
  /\ result' = [kind |-> "return",
                value |-> <<build_feed_url(args[1]), build_feed_url(args[2])>>]
  /\ UNCHANGED <<args, fsVars, mainVars, scraperVars>>

SpecBuildFeedUrl == InitBuildFeedUrl /\ [][CallBuildFeedUrl]_vars

----------------------------------------------------------------------------
(* Unit specification of the file-name derivation of download_mp3: it is   *)
(* applied to a media URL, and again to the name it gave.                  *)

UrlPieces ==
  { <<"/">>, <<"e">>, <<".">>, Mp3Marker, <<".","M","P","3">>, <<"?","t">>,
    <<"U+0130">> }

InitFilename ==
  /\ fn = "none"
  /\ args \in { <<u>> : u \in Inputs(UrlPieces, MaxPieces) }
  /\ result = [kind |-> "pending", value |-> <<>>]
  /\ IdleFs /\ IdleMain /\ IdleScraper

CallDeriveFilename ==
  /\ fn = "none"
  /\ fn' = "derive_filename"
  /\ result' = [kind |-> "return",
                value |-> <<DeriveFilename(args[1]),
                            DeriveFilename(DeriveFilename(args[1]))>>]
  /\ UNCHANGED <<args, fsVars, mainVars, scraperVars>>

SpecFilename == InitFilename /\ [][CallDeriveFilename]_vars

----------------------------------------------------------------------------
(* Unit specification of get_first_mp3_enclosure: the feed server holds a  *)
(* document that its publisher writes out element by element; the function *)
(* is called with the feed URL and gets one of the server's answers.       *)

EnclosureUrl1 == <<"/","a",".","m","p","3">>
EnclosureUrl2 == <<"/","b","?","t">>

\* What an element can be, apart from its children.
Labels ==
  { [tag |-> "channel", url |-> NoneVal], [tag |-> "item", url |-> NoneVal] }
    \cup { [tag |-> "enclosure", url |-> u] :
             u \in {NoneVal, EnclosureUrl1, EnclosureUrl2} }

RECURSIVE Size(_)
\* The number of elements of a sequence of elements, descendants included.
Size(kids) ==
  IF kids = <<>> THEN 0
  ELSE 1 + Size(Head(kids).kids) + Size(Tail(kids))

RECURSIVE RightDepth(_)
\* How many elements deep the last child of the last child ... goes.
RightDepth(kids) ==
  IF kids = <<>> THEN 0 ELSE 1 + RightDepth(kids[Len(kids)].kids)

RECURSIVE AppendAt(_, _, _)
\* kids with e added as the last child of the element depth levels down its
\* last children (depth 0: as the last of kids): the document written out
\* one more element.
AppendAt(kids, depth, e) ==
  IF depth = 0 THEN Append(kids, e)
  ELSE [kids EXCEPT ![Len(kids)].kids = AppendAt(@, depth - 1, e)]

\* What the server may answer while it holds the document kids.
FeedResponses(kids) ==
  { [kind |-> "conn_error"],
    [kind |-> "http", status |-> 200, body |-> [wellformed |-> TRUE, kids |-> kids]],
    [kind |-> "http", status |-> 200, body |-> [wellformed |-> FALSE, kids |-> kids]],
    [kind |-> "http", status |-> 404, body |-> [wellformed |-> TRUE, kids |-> kids]],
    [kind |-> "http", status |-> 503, body |-> [wellformed |-> FALSE, kids |-> <<>>]] }

InitFeed ==
  /\ fn = "none"
  /\ args = << build_feed_url(<<"f","1">>) >>
  /\ result = [kind |-> "pending", value |-> <<>>]
  /\ dirs = {}
  /\ files = <<>>
  /\ log = <<>>
  /\ feed = <<>>
  /\ IdleMain /\ IdleScraper

\* The publisher writes one more element at the end of the feed document.
PublishElement ==
  /\ fn = "none"
  /\ Size(feed) < MaxNodes
  /\ \E l \in Labels, depth \in 0..RightDepth(feed) :
       feed' = AppendAt(feed, depth, [tag |-> l.tag, url |-> l.url, kids |-> <<>>])
  /\ UNCHANGED <<callVars, dirs, files, log, mainVars, scraperVars>>

CallGetFirstMp3Enclosure ==
  /\ fn = "none"
  /\ fn' = "get_first_mp3_enclosure"
  /\ \E resp \in FeedResponses(feed) :
       /\ log' = Append(log, [op |-> "GET_FEED", idx |-> 0, url |-> args[1],
                               path |-> <<>>, resp |-> resp])
       /\ LET r == get_first_mp3_enclosure(resp)
          IN  result' = [kind |-> r.kind, value |-> r.value]
  /\ UNCHANGED <<args, dirs, files, feed, mainVars, scraperVars>>

NextFeed ==
  \/ PublishElement
  \/ CallGetFirstMp3Enclosure

SpecFeed == InitFeed /\ [][NextFeed]_vars

----------------------------------------------------------------------------
(* Unit specification of download_mp3: args holds the media URL, the       *)
(* destination folder and what the network answers to the GET.             *)

LiteralFolder == <<"d","o","w","n","l","o","a","d","e","d","_","p","o","d","c","a","s","t","_","a","u","d","i","o">>

MediaUrls ==
  { NoneVal,
    <<"h","/","e",".","m","p","3">>,
    <<"h","/","e",".","m","p","3","?","t">>,
    <<"h","/","e">>,
    <<"h","/">> }

DestFolders ==
  { LiteralFolder, <<"o","/","d">>, <<>> }

Chunks == { <<>>, <<"x">>, <<"y","z">> }

MediaBodies ==
  { [chunks |-> c, clean |-> ok] :
      c \in UNION { [1..k -> Chunks] : k \in 0..MaxChunks }, ok \in BOOLEAN }

MediaResponses ==
  { [kind |-> "conn_error"] }
    \cup { [kind |-> "http", status |-> st, body |-> b] :
             st \in {200, 404}, b \in MediaBodies }

\* The files the destination may hold before the call.
OldContent == <<"o","l","d">>

InitDownload ==
  /\ fn = "none"
  /\ args \in MediaUrls \X DestFolders \X MediaResponses
  /\ \E pre \in SUBSET {"folder", "file", "blocked"} :
       /\ dirs = IF "folder" \in pre THEN MakeDirs({}, args[2]) ELSE {}
       /\ files =
            LET old == IF "file" \in pre /\ "folder" \in pre /\ args[1] # NoneVal
                       THEN { Join(args[2], DeriveFilename(args[1])) } ELSE {}
                blk == IF "blocked" \in pre /\ "folder" \notin pre
                       THEN { args[2] } ELSE {}
            IN  [p \in old \cup blk |-> OldContent]
  /\ log = <<>>
  /\ feed = <<>>
  /\ result = [kind |-> "pending", value |-> <<>>]
  /\ IdleMain /\ IdleScraper

CallDownloadMp3 ==
  /\ fn = "none"
  /\ fn' = "download_mp3"
  /\ LET r == download_mp3(args[1], args[2], args[3], dirs, files)
     IN  /\ result' = [kind |-> r.kind, value |-> r.value]
         /\ dirs' = r.dirs
         /\ files' = r.files
         /\ log' = log \o DownloadEvents(r, 0, args[1], args[3])
  /\ UNCHANGED <<args, feed, mainVars, scraperVars>>

SpecDownload == InitDownload /\ [][CallDownloadMp3]_vars

----------------------------------------------------------------------------
(* Unit specification of ConfigLoader.load: args holds what the file       *)
(* parses to.                                                              *)

ConfigFolders ==
  { <<"o","u","t">>, <<".","/","o","u","t","/">>, LiteralFolder }

PodcastUrl1 == <<"p","/","s","q","_","f","1","_","1">>
PodcastUrl2 == <<"p","/","s","q","_","f","2","2","_","1">>
PodcastUrlNoId == <<"p","/","x">>

\* The entries a podcast_url list may hold (None for an empty YAML item).
ListItems == { PodcastUrl1, PodcastUrl2, PodcastUrlNoId, NoneVal }

AudioValues ==
  { YStr(f) : f \in ConfigFolders } \cup { YNull }

UrlsValues ==
  { YList(l) : l \in UNION { [1..k -> ListItems] : k \in 0..MaxUrls } }
    \cup { YNull, YStr(PodcastUrl1) }

ConfigMaps ==
  { [k \in {KeyAudio, KeyUrls} |-> IF k = KeyAudio THEN a ELSE u] :
      a \in AudioValues, u \in UrlsValues }
    \cup { [k \in {KeyAudio} |-> a] : a \in AudioValues }
    \cup { [k \in {KeyUrls} |-> u] : u \in UrlsValues }
    \cup { [k \in {} |-> YNull] }

ConfigData ==
  { [kind |-> k] : k \in {"absent", "malformed", "null", "int"} }
    \cup { [kind |-> k, has |-> h] : k \in {"str", "list"}, h \in SUBSET {KeyAudio, KeyUrls} }
    \cup { [kind |-> "map", map |-> m] : m \in ConfigMaps }

InitConfig ==
  /\ fn = "none"
  /\ args \in { <<d>> : d \in ConfigData }
  /\ result = [kind |-> "pending", value |-> <<>>]
  /\ IdleFs /\ IdleMain /\ IdleScraper

CallLoad ==
  /\ fn = "none"
  /\ fn' = "load"
  /\ result' = Load(args[1])
  /\ UNCHANGED <<args, fsVars, mainVars, scraperVars>>

SpecConfig == InitConfig /\ [][CallLoad]_vars

----------------------------------------------------------------------------
(* The entry point, lines 126-144. pc is "start" before loader.load(),     *)
(* "extract" at the head of the for loop, "fetch" before line 141,         *)
(* "download" before line 143, "done" after the loop and "crashed" when an *)
(* exception has ended the run.                                            *)

MainMediaUrl1 == <<"h","/","e",".","m","p","3">>
MainMediaUrl2 == <<"h","/","e","2",".","m","p","3","?","t">>

\* A feed whose first item has an enclosure with the url attribute u.
FeedWith(u) ==
  << [tag |-> "channel", url |-> NoneVal, kids |->
       << [tag |-> "item", url |-> NoneVal, kids |->
            << [tag |-> "enclosure", url |-> u, kids |-> <<>>] >>] >>] >>

\* What a feed server may answer in a run.
MainFeedResponses ==
  { [kind |-> "conn_error"],
    [kind |-> "http", status |-> 404, body |-> [wellformed |-> FALSE, kids |-> <<>>]],
    [kind |-> "http", status |-> 200, body |-> [wellformed |-> FALSE, kids |-> <<>>]],
    [kind |-> "http", status |-> 200, body |-> [wellformed |-> TRUE, kids |-> <<>>]],
    [kind |-> "http", status |-> 200,
     body |-> [wellformed |-> TRUE, kids |-> FeedWith(MainMediaUrl1)]],
    [kind |-> "http", status |-> 200,
     body |-> [wellformed |-> TRUE, kids |-> FeedWith(MainMediaUrl2)]] }

\* What a media server may answer in a run.
MainMediaResponses ==
  { [kind |-> "conn_error"],
    [kind |-> "http", status |-> 404, body |-> [chunks |-> <<>>, clean |-> TRUE]],
    [kind |-> "http", status |-> 200,
     body |-> [chunks |-> << <<"x">>, <<>>, <<"y","z">> >>, clean |-> TRUE]],
    [kind |-> "http", status |-> 200,
     body |-> [chunks |-> << <<"x">> >>, clean |-> FALSE]] }

InitMain ==
  /\ pc = "start"
  /\ data \in ConfigData
  /\ config = [downloaded_podcast_audio |-> NoneVal, podcast_url |-> <<>>]
  /\ idx = 0
  /\ ivoox_id = Unbound
  /\ feed_url = Unbound
  /\ mp3_url = Unbound
  /\ saved_file = Unbound
  /\ exc = NoException
  /\ IdleCall /\ IdleFs /\ IdleScraper

\* An uncaught exception ends the run.
Crash(e) ==
  /\ pc' = "crashed"
  /\ exc' = e

\* Lines 127-131: the configuration is loaded (and printed).
LoadConfig ==
  /\ pc = "start"
  /\ LET r == Load(data)
     IN  IF r.kind = "raise"
         THEN Crash(r.value) /\ UNCHANGED <<config, idx>>
         ELSE /\ config' = r.value
              /\ idx' = 1
              /\ pc' = "extract"
              /\ exc' = exc
  /\ UNCHANGED <<data, ivoox_id, feed_url, mp3_url, saved_file, callVars, fsVars, scraperVars>>

\* Lines 133-139: the next URL of the list is taken and its identifier
\* extracted; feed_url is assigned only when there is one. re.search raises
\* TypeError on an entry that is not a str.
ExtractStep ==
  /\ pc = "extract"
  /\ idx <= Len(config.podcast_url)
  /\ LET podcast_url == config.podcast_url[idx]
     IN  IF podcast_url = NoneVal
         THEN /\ Crash([type |-> "TypeError", msg |-> "expected string or bytes-like object"])
              /\ UNCHANGED <<ivoox_id, feed_url>>
         ELSE /\ ivoox_id' = extract_id(podcast_url)
              /\ feed_url' = IF extract_id(podcast_url) # NoneVal
                             THEN build_feed_url(extract_id(podcast_url))
                             ELSE feed_url
              /\ pc' = "fetch"
              /\ exc' = exc
  /\ UNCHANGED <<data, config, idx, mp3_url, saved_file, callVars, fsVars, scraperVars>>

\* Line 133, the list is exhausted: the script ends.
FinishLoop ==
  /\ pc = "extract"
  /\ idx > Len(config.podcast_url)
  /\ pc' = "done"
  /\ UNCHANGED <<data, config, idx, ivoox_id, feed_url, mp3_url, saved_file, exc,
                 callVars, fsVars, scraperVars>>

\* A variant in which a failed fetch skips the URL instead of ending the run.
FetchStepIsolated ==
  /\ pc = "fetch"
  /\ feed_url # Unbound
  /\ \E resp \in MainFeedResponses :
       LET r == get_first_mp3_enclosure(resp)
       IN  /\ log' = Append(log, [op |-> "GET_FEED", idx |-> idx, url |-> feed_url,
                                  path |-> <<>>, resp |-> resp])
           /\ IF r.kind = "raise"
              THEN /\ pc' = "extract"
                   /\ idx' = idx + 1
                   /\ UNCHANGED <<mp3_url, exc>>
              ELSE /\ mp3_url' = r.value
                   /\ pc' = "download"
                   /\ UNCHANGED <<idx, exc>>
  /\ UNCHANGED <<data, config, ivoox_id, feed_url, saved_file, callVars, dirs,
                 files, feed, scraperVars>>

\* Lines 141-142: the feed at feed_url is fetched; reading feed_url before
\* its first assignment raises NameError.
FetchStep ==
  /\ pc = "fetch"
  /\ IF feed_url = Unbound
     THEN /\ Crash([type |-> "NameError", msg |-> "name 'feed_url' is not defined"])
          /\ UNCHANGED <<mp3_url, log>>
     ELSE \E resp \in MainFeedResponses :
            LET r == get_first_mp3_enclosure(resp)
            IN  /\ log' = Append(log, [op |-> "GET_FEED", idx |-> idx, url |-> feed_url,
                                       path |-> <<>>, resp |-> resp])
                /\ IF r.kind = "raise"
                   THEN Crash([type |-> r.value, msg |-> ""]) /\ UNCHANGED mp3_url
                   ELSE /\ mp3_url' = r.value
                        /\ pc' = "download"
                        /\ exc' = exc
  /\ UNCHANGED <<data, config, idx, ivoox_id, feed_url, saved_file, callVars, dirs,
                 files, feed, scraperVars>>

\* Lines 143-144: the enclosure is downloaded into the folder named by the
\* literal 'downloaded_podcast_audio', and the loop moves on.
DownloadStep ==
  /\ pc = "download"
  /\ \E resp \in MainMediaResponses :
       LET r == download_mp3(mp3_url, LiteralFolder, resp, dirs, files)
       IN  /\ dirs' = r.dirs
           /\ files' = r.files
           /\ log' = log \o DownloadEvents(r, idx, mp3_url, resp)
           /\ IF r.kind = "raise"
              THEN Crash([type |-> r.value, msg |-> ""]) /\ UNCHANGED <<saved_file, idx>>
              ELSE /\ saved_file' = r.value
                   /\ idx' = idx + 1
                   /\ pc' = "extract"
                   /\ exc' = exc
  /\ UNCHANGED <<data, config, ivoox_id, feed_url, mp3_url, callVars, feed,
                 scraperVars>>

NextMain ==
  \/ LoadConfig
  \/ ExtractStep
  \/ FinishLoop
  \/ FetchStep
  \/ DownloadStep

\* The script runs on one thread and each step is a blocking call that
\* returns or raises: a step that can be taken is taken.
SpecMain == InitMain /\ [][NextMain]_vars /\ WF_vars(NextMain)

----------------------------------------------------------------------------
(* WebScraper. scraper is [driver |-> "none"] before a WebScraper has been *)
(* constructed, and then the object with its browser session: driver is    *)
(* "open" from webdriver.Chrome(...) on and "closed" after driver.quit().  *)
(* lastOp records the last call: what the environment did in it (display,  *)
(* launch, banner, click, lookup) and whether it returned or raised.       *)

PageUrls == { "https://www.ivoox.com/a", "https://www.ivoox.com/b" }

FindMethods ==
  { "find_element_by_partial_text", "find_element_by_xpath",
    "find_elements_by_xpath", "find_element_by_id" }

\* Lines 33-43: the launch arguments.
WebdriverOptions(headless, muted) ==
  << "--disable-extensions" >>
    \o (IF headless THEN << "--headless" >> ELSE <<>>)
    \o (IF muted THEN << "--mute-audio" >> ELSE <<>>)
    \o << "--no-sandbox", "--disable-dev-shm-usage" >>

\* A plausible slip: the display is started outside the try.
DisplayOutcomeUncaught(started) ==
  IF started THEN "returned" ELSE "raised"

\* Lines 23-27: whatever Display(...).start() does, the constructor goes on.
DisplayOutcome(started) ==
  "returned"

\* Lines 48-56: whatever the wait for the banner and the click on it do
\* ("clicked", "not_found", "not_clickable"), start_connection goes on.
BannerOutcome(banner) ==
  "returned"

\* Lines 59-62: a WebDriverException of execute_script is caught.
ClickOutcome(rejected) ==
  "returned"

\* Lines 17-31. The constructor raises when webdriver.Chrome(...) does, and
\* then there is no object.
Construct ==
  /\ scraper.driver = "none"
  /\ \E headless \in BOOLEAN, muted \in BOOLEAN, started \in BOOLEAN, launched \in BOOLEAN :
       LET outcome == IF DisplayOutcome(started) = "raised" \/ ~launched
                      THEN "raised" ELSE "returned"
       IN  /\ lastOp' = [op |-> "__init__", outcome |-> outcome,
                         display |-> IF started THEN "started" ELSE "failed",
                         launch |-> IF DisplayOutcome(started) = "raised" THEN "skipped"
                                    ELSE IF launched THEN "ok" ELSE "failed"]
           /\ scraper' =
                IF outcome = "raised" THEN scraper
                ELSE [driver |-> "open", headless |-> headless, muted |-> muted,
                      options |-> WebdriverOptions(headless, muted),
                      display |-> started, page |-> "about:blank",
                      cookies |-> FALSE, clicks |-> 0]
  /\ UNCHANGED <<callVars, fsVars, mainVars>>

\* Lines 45-56. driver.get raises on a closed session, and may raise on an
\* open one; neither is caught.
StartConnection ==
  /\ scraper.driver # "none"
  /\ \E url \in PageUrls, loaded \in BOOLEAN,
        banner \in {"clicked", "not_found", "not_clickable"} :
       IF scraper.driver = "closed" \/ ~loaded
       THEN /\ lastOp' = [op |-> "start_connection", outcome |-> "raised",
                          get |-> "failed", banner |-> "skipped"]
            /\ scraper' = scraper
       ELSE /\ lastOp' = [op |-> "start_connection", outcome |-> BannerOutcome(banner),
                          get |-> "ok", banner |-> banner]
            /\ scraper' = [scraper EXCEPT !.page = url,
                                          !.cookies = (banner = "clicked")]
  /\ UNCHANGED <<callVars, fsVars, mainVars>>

\* Lines 58-62. On a closed session execute_script fails with an exception
\* that may or may not be a WebDriverException.
ClickElement ==
  /\ scraper.driver # "none"
  /\ \E rejected \in BOOLEAN, caught \in BOOLEAN :
       IF scraper.driver = "closed"
       THEN /\ lastOp' = [op |-> "click_element",
                          outcome |-> IF caught THEN "returned" ELSE "raised",
                          click |-> "no_session"]
            /\ scraper' = scraper
       ELSE /\ lastOp' = [op |-> "click_element", outcome |-> ClickOutcome(rejected),
                          click |-> IF rejected THEN "rejected" ELSE "done"]
            /\ scraper' =
                 IF rejected \/ scraper.clicks = MaxClicks THEN scraper
                 ELSE [scraper EXCEPT !.clicks = @ + 1]
  /\ UNCHANGED <<callVars, fsVars, mainVars>>

\* Lines 64-74: the four lookups hand the call to the driver; what it raises
\* (no such element, no session) is not caught.
FindElement ==
  /\ scraper.driver # "none"
  /\ \E method \in FindMethods, found \in BOOLEAN :
       lastOp' = [op |-> method,
                  outcome |-> IF scraper.driver = "open" /\ found
                              THEN "returned" ELSE "raised"]
  /\ scraper' = scraper
  /\ UNCHANGED <<callVars, fsVars, mainVars>>

\* Lines 76-77: driver.quit() ends the session (and is harmless on an ended
\* one).
CloseConnection ==
  /\ scraper.driver # "none"
  /\ lastOp' = [op |-> "close_connection", outcome |-> "returned"]
  /\ scraper' = [scraper EXCEPT !.driver = "closed"]
  /\ UNCHANGED <<callVars, fsVars, mainVars>>

InitScraper ==
  /\ IdleScraper
  /\ IdleCall /\ IdleFs /\ IdleMain

NextScraper ==
  \/ Construct
  \/ StartConnection
  \/ ClickElement
  \/ FindElement
  \/ CloseConnection

SpecScraper == InitScraper /\ [][NextScraper]_vars

----------------------------------------------------------------------------
(* Claims about extract_id, build_feed_url and the file-name derivation. *)

\* sq_ f d^n _ occurs in s at the 1-based position i, with n >= 1 digits.
C6_Occurrence(s, i, n) ==
  /\ n >= 1
  /\ i + 4 + n <= Len(s)
  /\ s[i] = "s" /\ s[i + 1] = "q" /\ s[i + 2] = "_" /\ s[i + 3] = "f"
  /\ \A j \in 1..n : IsDigit(s[i + 3 + j])
  /\ s[i + 4 + n] = "_"

C6_Occurrences(s) ==
  { o \in (1..Len(s)) \X (1..Len(s)) : C6_Occurrence(s, o[1], o[2]) }

\* The token of the leftmost occurrence in s, "f" and its digits, or None.
C6_Token(s) ==
  LET occ == C6_Occurrences(s)
  IN  IF occ = {} THEN NoneVal
      ELSE LET o == CHOOSE o \in occ : \A p \in occ : o[1] <= p[1]
           IN  <<"f">> \o SubSeq(s, o[1] + 4, o[1] + 3 + o[2])

\* C6: extract_id never fails; when the URL holds an occurrence of
\* sq_ + f + digits + _, it returns "f" followed by the digits of the leftmost
\* occurrence, and when it holds none it returns None.
C6_ExtractIdLeftmost ==
  fn = "extract_id" =>
    /\ result.kind = "return"
    /\ result.value = C6_Token(args[1])

\* C6 witness: a URL with two occurrences that carry different tokens was
\* searched, and the first token came back.
C6_Witness ==
  /\ fn = "extract_id"
  /\ args[1] = <<"s","q","_","f","1","_","s","q","_","f","2","2","_">>
  /\ result.value = <<"f","1">>

\* C7: build_feed_url puts the identifier between the fixed prefix and suffix
\* of the template, so the same identifier gives the same URL and two
\* distinct identifiers give two distinct URLs.
C7_BuildFeedUrlInjective ==
  fn = "build_feed_url" =>
    /\ result.value[1] = FeedPrefix \o args[1] \o FeedSuffix
    /\ result.value[2] = FeedPrefix \o args[2] \o FeedSuffix
    /\ (args[1] = args[2]) <=> (result.value[1] = result.value[2])

\* C7 witness: two distinct non-empty identifiers were formatted.
C7_Witness ==
  /\ fn = "build_feed_url"
  /\ args[1] # args[2]
  /\ args[1] # <<>> /\ args[2] # <<>>
  /\ result.value[1] # result.value[2]

\* ".mp3" in any letter case stands in s at the 1-based position i.
C5_MarkerAt(s, i) ==
  /\ i >= 1
  /\ i + 3 <= Len(s)
  /\ s[i] = "."
  /\ s[i + 1] \in {"m", "M"}
  /\ s[i + 2] \in {"p", "P"}
  /\ s[i + 3] = "3"

\* What follows the last "/" of url (url itself when it has none).
C5_Segment(url) ==
  CHOOSE seg \in { SubSeq(url, k, Len(url)) : k \in 1..(Len(url) + 1) } :
    /\ \A i \in 1..Len(seg) : seg[i] # "/"
    /\ seg = url \/ url[Len(url) - Len(seg)] = "/"

\* The file name the media URL url stands for: its last segment, cut right
\* after the first marker when it holds one and does not end in one.
C5_Name(url) ==
  LET seg == C5_Segment(url)
      marks == { i \in 1..Len(seg) : C5_MarkerAt(seg, i) }
      first == CHOOSE i \in marks : \A j \in marks : i <= j
  IN  IF marks = {} \/ C5_MarkerAt(seg, Len(seg) - 3) THEN seg
      ELSE SubSeq(seg, 1, first + 3)

\* C5: the file name is the last "/"-separated segment of the media URL,
\* unchanged when it ends in the marker or does not hold it, and otherwise cut
\* right after the first occurrence of the marker; deriving a name from a
\* derived name gives it back.
C5_FilenameDerivation ==
  fn = "derive_filename" =>
    /\ result.value[1] = C5_Name(args[1])
    /\ result.value[2] = result.value[1]

----------------------------------------------------------------------------
(* Claims about get_first_mp3_enclosure and download_mp3. *)

\* The lowest index of kids whose element has the tag (0 when none has).
C4_FirstIndex(kids, tag) ==
  IF \A i \in 1..Len(kids) : kids[i].tag # tag THEN 0
  ELSE CHOOSE i \in 1..Len(kids) :
         /\ kids[i].tag = tag
         /\ \A j \in 1..(i - 1) : kids[j].tag # tag

C8_ReachedSuccess ==
  /\ fn = "download_mp3"
  /\ args[3].kind = "http"
  /\ args[3].status = 200
  /\ args[3].body.chunks = << <<"x">>, <<>> >>
  /\ result.kind = "return"

----------------------------------------------------------------------------
(* Claim about ConfigLoader.load. *)

\* The parsed content d has the key.
C3_Has(d, key) ==
  d.kind = "map" /\ key \in DOMAIN d.map

\* C3: on an existing file that parses, load fails with "Missing required
\* field: <key>" for a key the content lacks whenever it lacks one of the two
\* keys, fails with the wrong-type error when it has both and podcast_url is
\* not a list, and returns only when it has both and podcast_url is a list,
\* the configuration then holding the two parsed values.
C3_LoadValidates ==
  (fn = "load" /\ args[1].kind \notin {"absent", "malformed"}) =>
    LET d == args[1]
    IN  /\ (~C3_Has(d, KeyAudio) \/ ~C3_Has(d, KeyUrls)) =>
             /\ result.kind = "raise"
             /\ result.value.type = "ValueError"
             /\ \/ /\ ~C3_Has(d, KeyAudio)
                   /\ result.value.msg = "Missing required field: downloaded_podcast_audio"
                \/ /\ ~C3_Has(d, KeyUrls)
                   /\ result.value.msg = "Missing required field: podcast_url"
        /\ (C3_Has(d, KeyAudio) /\ C3_Has(d, KeyUrls) /\ d.map[KeyUrls].type # "list") =>
             result = Raise("ValueError", "podcast_url must be an array of strings")
        /\ result.kind = "return" =>
             /\ C3_Has(d, KeyAudio) /\ C3_Has(d, KeyUrls)
             /\ d.map[KeyUrls].type = "list"
             /\ result.value.podcast_url = d.map[KeyUrls].v
             /\ result.value.downloaded_podcast_audio = PathOf(d.map[KeyAudio].v)

----------------------------------------------------------------------------
(* Claims about the entry point. *)

\* C1: every feed URL the run fetches while it processes a configured URL is
\* build_feed_url(extract_id(that URL)): the template filled with the token
\* of that URL itself (with what None formats to when it has no token), never
\* with a value an earlier URL left behind.
C1_FeedOfOwnUrl ==
  \A k \in 1..Len(log) :
    log[k].op = "GET_FEED" =>
      LET token == C6_Token(config.podcast_url[log[k].idx])
      IN  log[k].url =
            FeedPrefix \o (IF token = NoneVal THEN NoneText ELSE token) \o FeedSuffix

\* C2: every file the run opens for writing is at
\* <config.downloaded_podcast_audio>/<file name derived from the media URL>.
C2_WrittenUnderConfiguredFolder ==
  \A k \in 1..Len(log) :
    log[k].op = "WRITE" =>
      log[k].path = config.downloaded_podcast_audio \o <<"/">> \o C5_Name(log[k].url)

\* The requests of one kind in the history, in the order they were sent.
C9_Requests(op) ==
  SelectSeq(log, LAMBDA e : e.op = op)

\* The response is a failed fetch of a feed: no connection, an error status,
\* or a body that does not parse.
C9_FeedFails(resp) ==
  \/ resp.kind = "conn_error"
  \/ resp.status >= 400
  \/ ~resp.body.wellformed

C9_MediaFails(resp) ==
  \/ resp.kind = "conn_error"
  \/ resp.status >= 400

\* The feeds are fetched for the positions 1, 2, ... of the list, one request
\* each, and so are the downloads, never ahead of the feeds; a finished run
\* has fetched and downloaded for every position and raised nothing.
C9_InOrder ==
  LET feeds == C9_Requests("GET_FEED")
      medias == C9_Requests("GET_MEDIA")
  IN  /\ \A k \in 1..Len(feeds) : feeds[k].idx = k
      /\ \A k \in 1..Len(medias) : medias[k].idx = k
      /\ Len(medias) <= Len(feeds)
      /\ Len(feeds) <= Len(config.podcast_url)
      /\ pc = "done" =>
           /\ Len(feeds) = Len(config.podcast_url)
           /\ Len(medias) = Len(config.podcast_url)
           /\ exc = NoException
      /\ pc = "crashed" <=> exc # NoException

\* A step of the run: nothing happens once the run has ended, and a failed
\* request, or an absent enclosure URL handed to download_mp3, ends it.
C9_Step ==
  LET new == SubSeq(log', Len(log) + 1, Len(log'))
  IN  /\ pc \in {"done", "crashed"} => UNCHANGED vars
      /\ \A k \in 1..Len(new) :
           /\ (new[k].op = "GET_FEED" /\ C9_FeedFails(new[k].resp)) => pc' = "crashed"
           /\ (new[k].op = "GET_MEDIA" /\ C9_MediaFails(new[k].resp)) => pc' = "crashed"
      /\ (pc = "download" /\ mp3_url = NoneVal) =>
           /\ pc' = "crashed"
           /\ exc'.type = "AttributeError"
           /\ log' = log

\* C9: a failure while a URL is processed ends the run there, and no later
\* URL is fetched or downloaded; a run in which nothing fails processes every
\* configured URL once, in list order; and every run ends.
C9_FailuresEndTheRun ==
  /\ []C9_InOrder
  /\ [][C9_Step]_vars
  /\ <>(pc \in {"done", "crashed"})

\* C9 witness: the feed of the first of two URLs had no enclosure, None went
\* to download_mp3, and the run ended before the second URL was touched.
C9_Witness ==
  /\ pc = "crashed"
  /\ exc.type = "AttributeError"
  /\ Len(config.podcast_url) = 2
  /\ idx = 1
  /\ Len(C9_Requests("GET_FEED")) = 1
  /\ Len(C9_Requests("GET_MEDIA")) = 0

\* A run of two URLs that ended with both fetched and downloaded.
C9_ReachedDone ==
  /\ pc = "done"
  /\ Len(config.podcast_url) = 2
  /\ Len(C9_Requests("GET_MEDIA")) = 2

----------------------------------------------------------------------------
(* Claim about the browser session wrapper. *)

\* A constructed wrapper's session is open or closed.
C10_TwoStates ==
  scraper.driver \in {"none", "open", "closed"}

\* A step of the wrapper: a closed session stays closed, only
\* close_connection closes an open one, and the three conditions are
\* swallowed: a constructor whose display setup failed (the browser having
\* launched), a start_connection whose banner was not found or not clickable,
\* and a click_element whose click was rejected return normally, the session
\* open.
C10_Step ==
  /\ scraper.driver = "closed" => scraper'.driver = "closed"
  /\ (scraper.driver = "open" /\ scraper'.driver # "open") =>
       /\ scraper'.driver = "closed"
       /\ lastOp'.op = "close_connection"
  /\ (scraper.driver = "none" /\ scraper'.driver # "none") =>
       /\ scraper'.driver = "open"
       /\ lastOp'.op = "__init__"
  /\ (lastOp'.op = "__init__" /\ scraper.driver = "none") =>
       ( (lastOp'.display = "failed" /\ lastOp'.launch # "failed") =>
           /\ lastOp'.outcome = "returned"
           /\ lastOp'.launch = "ok"
           /\ scraper'.driver = "open" )
  /\ (lastOp'.op = "start_connection" /\ scraper.driver = "open") =>
       ( (lastOp'.get = "ok" /\ lastOp'.banner \in {"not_found", "not_clickable"}) =>
           /\ lastOp'.outcome = "returned"
           /\ scraper'.driver = "open" )
  /\ (lastOp'.op = "click_element" /\ scraper.driver = "open") =>
       ( lastOp'.click = "rejected" =>
           /\ lastOp'.outcome = "returned"
           /\ scraper'.driver = "open" )

\* C10: the session is open or closed, closes only through close_connection
\* and never reopens; a failed display setup, a cookie banner that is not
\* found or not clickable, and a rejected click are swallowed.
C10_SessionAndSwallowedErrors ==
  /\ []C10_TwoStates
  /\ [][C10_Step]_vars

\* C10 witness: a wrapper built without a display, whose last call was a
\* click that the element rejected, and which returned with the session open.
C10_Witness ==
  /\ scraper.driver = "open"
  /\ ~scraper.display
  /\ lastOp.op = "click_element"
  /\ lastOp.click = "rejected"
  /\ lastOp.outcome = "returned"

====
